---- MODULE Spec2Model ----
(***************************************************************************)
(* Model of the pill dispenser firmware (pill_d_v2.ino): the boot-time     *)
(* schedule synchronisation (remote API, SPIFFS cache) and the control     *)
(* loop (button gestures, mode toggle, manual and scheduled dispensing).   *)
(*                                                                         *)
(* Strings are sequences of one-character strings.  Arrays are functions   *)
(* on 0 .. MAX_SLOTS-1, as in C.  Time is in milliseconds; `ms' is the     *)
(* value millis() has when a loop iteration ends, counted from the moment  *)
(* setup() returns (the loop only ever uses differences of millis()).      *)
(***************************************************************************)
EXTENDS Integers, Sequences, FiniteSets, TLC

\* ------------------------------------------------------------------------
\* Program constants
\* ------------------------------------------------------------------------
MAX_SLOTS == 6
HOLD_MS == 5000
MANUAL_MIN_MS == 1000
TOGGLE_DELAY_MS == 1000
LOOP_DELAY_MS == 100
MANUAL_BUZZ_MS == 500
SCHED_BUZZ_MS == 1000
STEPS_PER_REV == 2048
STEPPER_RPM == 10
WIFI_TIMEOUT == 10000
WIFI_POLL_MS == 100

Slots == 0 .. (MAX_SLOTS - 1)

\* (int)DEGREE_TO_STEP = (int)(2048 / 360.0 * 51) = 290
DEGREE_TO_STEP == (STEPS_PER_REV * 51) \div 360

\* Stepper::step blocks for steps * (60e6 / STEPS_PER_REV / rpm) microseconds.
StepMs == (DEGREE_TO_STEP * ((60 * 1000 * 1000) \div (STEPS_PER_REV * STEPPER_RPM))) \div 1000

\* ------------------------------------------------------------------------
\* Bounds of the model
\* ------------------------------------------------------------------------
\* The loop is explored while millis() is at most this value (a day and a
\* few seconds).
MaxMillis == 86406000

DayMs == 24 * 60 * 60 * 1000
MinuteMs == 60 * 1000

\* Instants at which a loop iteration may sample millis(): a press that
\* begins at one of PressTimes, seen again after one of Durations.  6100 is
\* the first instant the loop can run again after a toggle at 5000; the
\* last press begins a day after the first.
PressTimes == {0, 6100, 6200, DayMs}
Durations == {0, 999, 1000, 4999, 5000}
SampleTimes ==
    { x \in { p + d : p \in PressTimes, d \in Durations } : x <= MaxMillis }

\* Time of day, in ms since midnight, at which setup() returns and the loop
\* starts: 07:30:00.000 and 07:30:54.000.
BootTimes == { (7 * 60 + 30) * MinuteMs, (7 * 60 + 30) * MinuteMs + 54000 }

\* ------------------------------------------------------------------------
\* Arduino String and C library helpers
\* ------------------------------------------------------------------------
Digits == {"0", "1", "2", "3", "4", "5", "6", "7", "8", "9"}

DigitVal(c) ==
    CASE c = "0" -> 0 [] c = "1" -> 1 [] c = "2" -> 2 [] c = "3" -> 3
      [] c = "4" -> 4 [] c = "5" -> 5 [] c = "6" -> 6 [] c = "7" -> 7
      [] c = "8" -> 8 [] c = "9" -> 9

DigitChar(d) ==
    CASE d = 0 -> "0" [] d = 1 -> "1" [] d = 2 -> "2" [] d = 3 -> "3"
      [] d = 4 -> "4" [] d = 5 -> "5" [] d = 6 -> "6" [] d = 7 -> "7"
      [] d = 8 -> "8" [] d = 9 -> "9"

\* String::substring(left, right): chars left .. right-1, clipped to the length.
substring(s, left, right) ==
    LET lo == IF left > right THEN right ELSE left
        hi0 == IF left > right THEN left ELSE right
        hi == IF hi0 > Len(s) THEN Len(s) ELSE hi0
    IN  IF lo >= Len(s) THEN << >> ELSE SubSeq(s, lo + 1, hi)

\* Leading run of decimal digits of s, as a number (0 when there is none).
RECURSIVE DigitsValue(_, _)
DigitsValue(s, acc) ==
    IF s = << >> \/ Head(s) \notin Digits
    THEN acc
    ELSE DigitsValue(Tail(s), acc * 10 + DigitVal(Head(s)))

RECURSIVE SkipSpace(_)
SkipSpace(s) ==
    IF s # << >> /\ Head(s) = " " THEN SkipSpace(Tail(s)) ELSE s

\* String::toInt() is atol(): leading blanks, an optional sign, then digits up
\* to the first other character; 0 when no digits are found.
toInt(s) ==
    LET t == SkipSpace(s)
    IN  IF t = << >> THEN 0
        ELSE IF Head(t) = "-" THEN 0 - DigitsValue(Tail(t), 0)
        ELSE IF Head(t) = "+" THEN DigitsValue(Tail(t), 0)
        ELSE DigitsValue(t, 0)

\* Decimal digits of n >= 0.
RECURSIVE NatChars(_)
NatChars(n) ==
    IF n < 10 THEN << DigitChar(n) >>
    ELSE Append(NatChars(n \div 10), DigitChar(n % 10))

\* A field printed with "%d": no zero padding.
Fmt02d_NoPad(n) == IF n < 0 THEN << "-" >> \o NatChars(0 - n) ELSE NatChars(n)

\* printf "%02d": sign and digits, left-padded with zeros to width 2 (a
\* negative number already fills the width with its sign).
Fmt02d(n) ==
    LET body == IF n < 0 THEN << "-" >> \o NatChars(0 - n) ELSE NatChars(n)
    IN  IF Len(body) >= 2 THEN body ELSE << "0" >> \o body

\* sprintf(buf, "%02d:%02d", h, m)
FormatTime(h, m) == Fmt02d(h) \o << ":" >> \o Fmt02d(m)

\* ------------------------------------------------------------------------
\* JSON values (ArduinoJson variants) and the two document shapes
\* ------------------------------------------------------------------------
\* A variant is a string, an object with a "time" member, or an object
\* without one.  A document is either undecodable or an object whose
\* "times" member is an array of variants.
StrV(s) == [kind |-> "str", s |-> s]
ObjV(s) == [kind |-> "obj", s |-> s]
EmptyObjV == [kind |-> "emptyobj", s |-> << >>]

NoFile == [kind |-> "nofile", times |-> << >>]
Garbage == [kind |-> "garbage", times |-> << >>]
JsonDoc(ts) == [kind |-> "json", times |-> ts]

NullStr == << "n", "u", "l", "l" >>

\* serializeJson of {"time":"<s>"} and of {}
SerializedObj(s) ==
    << "{", "\"", "t", "i", "m", "e", "\"", ":", "\"" >> \o s \o << "\"", "}" >>

\* v.as<String>(): the string itself, otherwise the value serialized as JSON.
AsString(v) ==
    CASE v.kind = "str" -> v.s
      [] v.kind = "obj" -> SerializedObj(v.s)
      [] v.kind = "emptyobj" -> << "{", "}" >>

\* t["time"].as<String>(): the member, or "null" when t has no such member.
TimeMemberAsString(t) ==
    IF t.kind = "obj" THEN t.s ELSE NullStr

\* A minute field read one character too early.
ParseMinute_WrongOffset(s) == toInt(substring(s, 2, 4))

\* int hour = s.substring(0, 2).toInt();  int minute = s.substring(3, 5).toInt();
ParseHour(s) == toInt(substring(s, 0, 2))
ParseMinute(s) == toInt(substring(s, 3, 5))

\* A loop that leaves one slot earlier: if (scheduleCount >= MAX_SLOTS - 1) break;
StoredCount_BreaksEarly(n) == IF n >= MAX_SLOTS - 1 THEN MAX_SLOTS - 1 ELSE n

\* Number of array elements the for loop stores: it breaks once
\* scheduleCount reaches 6.
StoredCount(n) == IF n >= MAX_SLOTS THEN MAX_SLOTS ELSE n

\* The array indices the parsing loop writes for a list of n elements: index
\* scheduleCount before each increment.
WrittenIndices(n) == { i \in 0 .. n - 1 : i < StoredCount(n) }

\* The three arrays and the count after the parsing loop has run over the
\* time strings strs (scheduleCount = 0, then one store per element).
FilledHours(strs, old) ==
    [i \in Slots |-> IF i < StoredCount(Len(strs)) THEN ParseHour(strs[i + 1]) ELSE old[i]]
FilledMinutes(strs, old) ==
    [i \in Slots |-> IF i < StoredCount(Len(strs)) THEN ParseMinute(strs[i + 1]) ELSE old[i]]
FilledExecuted(strs, old) ==
    [i \in Slots |-> IF i < StoredCount(Len(strs)) THEN FALSE ELSE old[i]]

\* An encoder whose loop stops one slot early.
EncodedSchedule_DropsLast(hours, minutes, count) ==
    JsonDoc([k \in 1 .. (IF count > 0 THEN count - 1 ELSE 0) |->
                StrV(FormatTime(hours[k - 1], minutes[k - 1]))])

\* The document saveScheduleToSPIFFS serializes: one "HH:MM" string per slot.
EncodedSchedule(hours, minutes, count) ==
    JsonDoc([k \in 1 .. count |-> StrV(FormatTime(hours[k - 1], minutes[k - 1]))])

\* ------------------------------------------------------------------------
\* Documents the remote service and the flash file system may hold
\* ------------------------------------------------------------------------
T0730 == << "0", "7", ":", "3", "0" >>
T0731 == << "0", "7", ":", "3", "1" >>
Txxyy == << "x", "x", ":", "y", "y" >>

RemoteDocs ==
    { JsonDoc(<< ObjV(T0730), ObjV(Txxyy) >>),
      Garbage }

CacheFiles ==
    { NoFile,
      Garbage,
      JsonDoc(<< StrV(T0731), StrV(Txxyy) >>) }

\* Documents for the boot synchronisation alone: well-formed schedules of
\* two and of seven entries, a mix of valid and malformed entries, two-digit
\* fields out of range, an empty list, and (remote) bare strings where
\* objects with a "time" member are expected.
T0600 == << "0", "6", ":", "0", "0" >>
T0800 == << "0", "8", ":", "0", "0" >>
T1205 == << "1", "2", ":", "0", "5" >>
T1845 == << "1", "8", ":", "4", "5" >>
T2359 == << "2", "3", ":", "5", "9" >>
T2561 == << "2", "5", ":", "6", "1" >>

SevenTimes == << T0600, T0730, T0731, T0800, T1205, T1845, T2359 >>

SyncRemoteDocs ==
    { JsonDoc(<< ObjV(T0730), ObjV(T2359) >>),
      JsonDoc([k \in 1 .. 7 |-> ObjV(SevenTimes[k])]),
      JsonDoc(<< ObjV(T0800), ObjV(Txxyy) >>),
      JsonDoc(<< ObjV(T2561) >>),
      JsonDoc(<< StrV(T0800) >>),
      JsonDoc(<< >>),
      Garbage }

SyncCacheFiles ==
    { NoFile,
      Garbage,
      JsonDoc(<< StrV(T0731), StrV(T1205) >>),
      JsonDoc([k \in 1 .. 7 |-> StrV(SevenTimes[8 - k])]),
      JsonDoc(<< StrV(T0800), StrV(Txxyy) >>),
      JsonDoc(<< StrV(T2561) >>),
      JsonDoc(<< >>) }

\* A well-formed HH:MM time string.
ValidTime(s) ==
    /\ Len(s) = 5
    /\ s[1] \in Digits /\ s[2] \in Digits /\ s[3] = ":"
    /\ s[4] \in Digits /\ s[5] \in Digits
    /\ ParseHour(s) <= 23
    /\ ParseMinute(s) <= 59

\* ------------------------------------------------------------------------
\* State
\* ------------------------------------------------------------------------
VARIABLES
    pc,               \* "setup", "connect", "connecting", "fetch", "load", "loop",
                      \* "halted"; "save" and "saved" in the codec round trip
    remote,           \* document the API serves
    spiffs,           \* /schedule.json in flash
    wifiMode,         \* "OFF", "STA", "AP"
    scheduleHours, scheduleMinutes, scheduleCount, alreadyExecuted,
    refillMode, buttonPressStart, buttonHeld,
    ms,               \* millis() at the end of the last loop iteration
    bootTime,         \* time of day (ms since midnight) at which the loop starts
    syncSource,       \* which source filled the schedule: "none", "remote", "cache"
    waited,           \* millis() - start inside the wait loop of connectWiFi()
    saveResult,       \* saveScheduleToSPIFFS(): "notrun", "ok", "failed"
    loadOpenFailed,   \* SPIFFS.open("r") failed in loadScheduleFromSPIFFS()
    codecInput,       \* the <<hour, minute>> pairs a codec round trip started from
    \* what the last loop iteration sampled and did
    currentMillis,    \* its millis() sample
    confState,        \* its digitalRead(CONFIRM): "LOW", "HIGH", "NONE" before the first
    now,              \* its rtc.now() as <<hour, minute>>
    manualSteps,      \* stepper.step calls of the release handler in it
    schedSteps,       \* slots whose scheduled dispense ran in it
    \* observers of the button and the clock
    pressBegin,       \* millis() sample of the first LOW of the current/last press
    pressToggles,     \* mode toggles so far in the current/last continuous press
    releasedNow,      \* the last iteration sampled HIGH right after a LOW
    modeAtStart,      \* refillMode when the last iteration began
    matchRun,         \* per slot: 0 clock off the slot, 1 first matching iteration, 2 later
    runNormal,        \* per slot: Mode was Normal throughout the current matching run
    firedInRun,       \* per slot: scheduled dispenses during the current matching run
    offSinceFire      \* per slot: a non-matching clock was read since it last fired

progVars == << scheduleHours, scheduleMinutes, scheduleCount, alreadyExecuted,
               refillMode, buttonPressStart, buttonHeld >>
envVars == << remote, spiffs, wifiMode, ms, bootTime, syncSource >>
iterVars == << currentMillis, confState, now, manualSteps, schedSteps >>
obsVars == << pressBegin, pressToggles, releasedNow, modeAtStart,
              matchRun, runNormal, firedInRun, offSinceFire >>
bootVars == << waited, saveResult, loadOpenFailed, codecInput >>
vars == << pc, progVars, envVars, iterVars, obsVars, bootVars >>

\* RAM and peripherals when setup() is entered: the globals hold their
\* initialisers.
ScheduleCleared ==
    /\ scheduleHours = [i \in Slots |-> 0]
    /\ scheduleMinutes = [i \in Slots |-> 0]
    /\ scheduleCount = 0
    /\ alreadyExecuted = [i \in Slots |-> FALSE]

ControlsAtReset ==
    /\ waited = 0
    /\ saveResult = "notrun"
    /\ loadOpenFailed = FALSE
    /\ wifiMode = "OFF"
    /\ refillMode = FALSE
    /\ buttonPressStart = 0
    /\ buttonHeld = FALSE
    /\ ms = 0
    /\ syncSource = "none"
    /\ currentMillis = 0
    /\ confState = "NONE"
    /\ now = << 0, 0 >>
    /\ manualSteps = 0
    /\ schedSteps = {}
    /\ pressBegin = 0
    /\ pressToggles = 0
    /\ releasedNow = FALSE
    /\ modeAtStart = FALSE
    /\ matchRun = [i \in Slots |-> 0]
    /\ runNormal = [i \in Slots |-> TRUE]
    /\ firedInRun = [i \in Slots |-> 0]
    /\ offSinceFire = [i \in Slots |-> TRUE]

PowerOn == ScheduleCleared /\ ControlsAtReset

Init ==
    /\ pc = "setup"
    /\ remote \in RemoteDocs
    /\ spiffs \in CacheFiles
    /\ bootTime \in BootTimes
    /\ codecInput = << >>
    /\ PowerOn

\* ------------------------------------------------------------------------
\* setup()
\* ------------------------------------------------------------------------
\* rtc.begin(): on failure the device halts in while (1).
SetupBegin ==
    /\ pc = "setup"
    /\ \E rtcOk \in BOOLEAN : pc' = IF rtcOk THEN "connect" ELSE "halted"
    /\ UNCHANGED << progVars, envVars, iterVars, obsVars, bootVars >>

\* connectWiFi() up to its wait loop: without stored credentials it returns
\* false at once and setup() calls startAPMode(); otherwise WiFi.begin() and
\* start = millis().
ConnectWiFi ==
    /\ pc = "connect"
    /\ \E credentials \in BOOLEAN :
          IF credentials
          THEN /\ wifiMode' = "STA"
               /\ pc' = "connecting"
          ELSE /\ wifiMode' = "AP"
               /\ pc' = "load"
    /\ waited' = 0
    /\ UNCHANGED << progVars, remote, spiffs, ms, bootTime, syncSource, iterVars,
                    obsVars, saveResult, loadOpenFailed, codecInput >>

\* A wait loop without the timeout: while (WiFi.status() != WL_CONNECTED)
WaitLoopContinues_NoTimeout(connected, w) == ~connected

\* while (WiFi.status() != WL_CONNECTED && millis() - start < WIFI_TIMEOUT)
WaitLoopContinues(connected, w) == ~connected /\ w < WIFI_TIMEOUT

\* delay(100) in the body of the wait loop.
WaitedAfter(w) == w + WIFI_POLL_MS

\* One evaluation of the wait loop's condition in connectWiFi(): either one
\* more delay(100), or the loop ends and connectWiFi() returns what
\* WiFi.status() says then; on false setup() calls startAPMode().
ConnectPoll ==
    /\ pc = "connecting"
    /\ \E connected \in BOOLEAN, connectedAtReturn \in BOOLEAN :
          IF WaitLoopContinues(connected, waited)
          THEN /\ waited' = WaitedAfter(waited)
               /\ UNCHANGED << pc, wifiMode >>
          ELSE /\ waited' = 0
               /\ wifiMode' = IF connectedAtReturn THEN "STA" ELSE "AP"
               /\ pc' = IF connectedAtReturn THEN "fetch" ELSE "load"
    /\ UNCHANGED << progVars, remote, spiffs, ms, bootTime, syncSource, iterVars,
                    obsVars, saveResult, loadOpenFailed, codecInput >>

\* saveScheduleToSPIFFS(): the file after the call, for each outcome of
\* SPIFFS.open("w") and serializeJson.  A file opened for writing is
\* truncated, so a failed write leaves an undecodable (empty) file.
SavedFile(outcome, old, hours, minutes, count) ==
    CASE outcome = "openfail" -> old
      [] outcome = "writefail" -> Garbage
      [] outcome = "ok" -> EncodedSchedule(hours, minutes, count)

\* A fetch that does not look at the DeserializationError.
FetchSucceeds_IgnoresParseError(outcome, doc) == outcome = "ok"

\* fetchScheduleFromAPI() gets past every early return: connected, begin and
\* GET succeed with HTTP_CODE_OK, and deserializeJson reports no error.
FetchSucceeds(outcome, doc) == outcome = "ok" /\ doc.kind = "json"

\* fetchScheduleFromAPI() as called from setup(); on failure setup() goes on
\* to loadScheduleFromSPIFFS().
FetchScheduleFromAPI ==
    /\ pc = "fetch"
    /\ \E outcome \in {"disconnected", "beginfail", "geterror", "non200", "ok"},
          saved \in {"openfail", "writefail", "ok"} :
          IF FetchSucceeds(outcome, remote)
          THEN LET strs == [k \in 1 .. Len(remote.times) |->
                               TimeMemberAsString(remote.times[k])]
                   hours == FilledHours(strs, scheduleHours)
                   minutes == FilledMinutes(strs, scheduleMinutes)
                   count == StoredCount(Len(strs))
               IN  /\ scheduleHours' = hours
                   /\ scheduleMinutes' = minutes
                   /\ alreadyExecuted' = FilledExecuted(strs, alreadyExecuted)
                   /\ scheduleCount' = count
                   /\ spiffs' = SavedFile(saved, spiffs, hours, minutes, count)
                   /\ saveResult' = IF saved = "ok" THEN "ok" ELSE "failed"
                   /\ syncSource' = "remote"
                   /\ pc' = "loop"
          ELSE /\ pc' = "load"
               /\ UNCHANGED << scheduleHours, scheduleMinutes, alreadyExecuted,
                               scheduleCount, spiffs, syncSource, saveResult >>
    /\ UNCHANGED << refillMode, buttonPressStart, buttonHeld, remote, wifiMode,
                    ms, bootTime, iterVars, obsVars, waited, loadOpenFailed,
                    codecInput >>

\* A load that does not look at the DeserializationError.
LoadSucceeds_IgnoresParseError(file, opened) == file.kind # "nofile" /\ opened

\* loadScheduleFromSPIFFS() gets past every early return: the file exists,
\* opens, and deserializeJson reports no error.
LoadSucceeds(file, opened) == file.kind = "json" /\ opened

\* loadScheduleFromSPIFFS(); setup() ignores its result and returns.
LoadScheduleFromSPIFFS ==
    /\ pc = "load"
    /\ \E opened \in BOOLEAN :
          /\ loadOpenFailed' = (spiffs.kind # "nofile" /\ ~opened)
          /\ IF LoadSucceeds(spiffs, opened)
             THEN LET strs == [k \in 1 .. Len(spiffs.times) |->
                                  AsString(spiffs.times[k])]
                  IN  /\ scheduleHours' = FilledHours(strs, scheduleHours)
                      /\ scheduleMinutes' = FilledMinutes(strs, scheduleMinutes)
                      /\ alreadyExecuted' = FilledExecuted(strs, alreadyExecuted)
                      /\ scheduleCount' = StoredCount(Len(strs))
                      /\ syncSource' = "cache"
             ELSE UNCHANGED << scheduleHours, scheduleMinutes, alreadyExecuted,
                               scheduleCount, syncSource >>
    /\ pc' = "loop"
    /\ UNCHANGED << refillMode, buttonPressStart, buttonHeld, remote, spiffs,
                    wifiMode, ms, bootTime, iterVars, obsVars, waited, saveResult,
                    codecInput >>

\* ------------------------------------------------------------------------
\* loop()
\* ------------------------------------------------------------------------
\* rtc.now() at the instant millis() (counted from the start of the loop) is
\* t, as <<hour, minute>>: the RTC runs at the pace of millis() and wraps at
\* midnight.
RtcNow(boot, t) ==
    LET minuteOfDay == ((boot + t) \div MinuteMs) % (24 * 60)
    IN  << minuteOfDay \div 60, minuteOfDay % 60 >>

\* currentMillis - buttonPressStart.  Both are unsigned long and millis()
\* wraps after 2^32 ms (49 days); the model stops at MaxMillis, long before
\* the wrap, where the unsigned difference is the plain difference.
Elapsed(t, start) == t - start

\* if (!buttonHeld) { buttonPressStart = currentMillis; buttonHeld = true; }
PressStartAfter(conf, held, start, t) ==
    IF conf = "LOW" /\ ~held THEN t ELSE start
HeldAfterPress(conf, held) ==
    IF conf = "LOW" /\ ~held THEN TRUE ELSE held

\* A hold detector that compares against the manual-dispense minimum.
HoldReached_WrongThreshold(conf, held, elapsed) ==
    conf = "LOW" /\ held /\ elapsed >= MANUAL_MIN_MS

\* if (buttonHeld && (currentMillis - buttonPressStart >= 5000)), in the
\* pressed branch.
HoldReached(conf, held, elapsed) ==
    conf = "LOW" /\ held /\ elapsed >= HOLD_MS

\* A release handler whose lower limit is exclusive (pressDuration > 1000).
ManualDispenseDue_ExclusiveMin(conf, held, refill, pressDuration) ==
    /\ conf = "HIGH"
    /\ held
    /\ refill
    /\ pressDuration > MANUAL_MIN_MS
    /\ pressDuration < HOLD_MS

\* if (refillMode && pressDuration >= 1000 && pressDuration < 5000), in the
\* released branch under if (buttonHeld).
ManualDispenseDue(conf, held, refill, pressDuration) ==
    /\ conf = "HIGH"
    /\ held
    /\ refill
    /\ pressDuration >= MANUAL_MIN_MS
    /\ pressDuration < HOLD_MS

\* refillMode = !refillMode, when the hold threshold is reached.
ModeAfter(refill, toggle) == IF toggle THEN ~refill ELSE refill

\* buttonHeld when the button handling of the iteration is done: reset by
\* the toggle, and by any released sample.
HeldAfter(conf, held, toggle) ==
    IF conf = "LOW" THEN (IF toggle THEN FALSE ELSE held) ELSE FALSE

\* A schedule block gated on the mode the iteration started in.
ScheduleBlockRuns_StaleMode(refillBefore, refillAfter) == ~refillBefore

\* if (!refillMode): the schedule block reads refillMode after the button
\* handling of the same iteration has updated it.
ScheduleBlockRuns(refillBefore, refillAfter) == ~refillAfter

\* now.hour() == scheduleHours[i] && now.minute() == scheduleMinutes[i]
SlotMatches(t, i) == t[1] = scheduleHours[i] /\ t[2] = scheduleMinutes[i]

\* A loop body that forgets alreadyExecuted[i] = true.
LatchAfter_NeverSet(matches, executed) ==
    IF matches THEN executed ELSE FALSE

\* A loop body that dispenses without reading alreadyExecuted[i].
SlotFires_IgnoresLatch(matches, executed) == matches

\* The body of the for loop for one slot: whether it dispenses, and the
\* latch it leaves.
SlotFires(matches, executed) == matches /\ ~executed
LatchAfter(matches, executed) ==
    IF matches THEN (IF ~executed THEN TRUE ELSE executed) ELSE FALSE

Loop ==
    /\ pc = "loop"
    /\ \E conf \in {"LOW", "HIGH"}, cm \in SampleTimes :
          /\ cm >= ms
          \* The loop runs many times a minute.  A later sample stands for a
          \* stretch of iterations that change nothing: the button released
          \* and the schedule block not running or empty.
          /\ (cm - ms >= MinuteMs) =>
                 /\ confState = "HIGH"
                 /\ ~buttonHeld
                 /\ (refillMode \/ scheduleCount = 0)
          /\ LET t == RtcNow(bootTime, cm)
                 start1 == PressStartAfter(conf, buttonHeld, buttonPressStart, cm)
                 held1 == HeldAfterPress(conf, buttonHeld)
                 toggle == HoldReached(conf, held1, Elapsed(cm, start1))
                 manual == ManualDispenseDue(conf, buttonHeld, refillMode,
                                             Elapsed(cm, buttonPressStart))
                 mode1 == ModeAfter(refillMode, toggle)
                 runs == ScheduleBlockRuns(refillMode, mode1)
                 live == { i \in Slots : i < scheduleCount }
                 fired == { i \in live :
                              runs /\ SlotFires(SlotMatches(t, i), alreadyExecuted[i]) }
                 newPress == conf = "LOW" /\ confState # "LOW"
                 busy == (IF toggle THEN TOGGLE_DELAY_MS ELSE 0)
                       + (IF manual THEN StepMs + MANUAL_BUZZ_MS ELSE 0)
                       + Cardinality(fired) * (StepMs + SCHED_BUZZ_MS)
                       + LOOP_DELAY_MS
             IN  /\ buttonPressStart' = start1
                 /\ buttonHeld' = HeldAfter(conf, held1, toggle)
                 /\ refillMode' = mode1
                 /\ alreadyExecuted' =
                       [i \in Slots |->
                          IF runs /\ i \in live
                          THEN LatchAfter(SlotMatches(t, i), alreadyExecuted[i])
                          ELSE alreadyExecuted[i]]
                 /\ ms' = cm + busy
                 /\ currentMillis' = cm
                 /\ confState' = conf
                 /\ now' = t
                 /\ manualSteps' = IF manual THEN 1 ELSE 0
                 /\ schedSteps' = fired
                 /\ pressBegin' = IF newPress THEN cm ELSE pressBegin
                 /\ pressToggles' =
                       IF conf = "LOW"
                       THEN (IF newPress THEN 0 ELSE pressToggles)
                            + (IF toggle THEN 1 ELSE 0)
                       ELSE pressToggles
                 /\ releasedNow' = (conf = "HIGH" /\ confState = "LOW")
                 /\ modeAtStart' = refillMode
                 /\ matchRun' =
                       [i \in Slots |->
                          IF i \in live /\ SlotMatches(t, i)
                          THEN (IF matchRun[i] = 0 THEN 1 ELSE 2)
                          ELSE 0]
                 /\ runNormal' =
                       [i \in Slots |->
                          IF i \in live /\ SlotMatches(t, i)
                          THEN /\ (matchRun[i] = 0 \/ runNormal[i])
                               /\ ~refillMode
                               /\ ~mode1
                          ELSE TRUE]
                 /\ firedInRun' =
                       [i \in Slots |->
                          IF i \in live /\ SlotMatches(t, i)
                          THEN (IF matchRun[i] = 0 THEN 0 ELSE firedInRun[i])
                               + (IF i \in fired THEN 1 ELSE 0)
                          ELSE 0]
                 /\ offSinceFire' =
                       [i \in Slots |->
                          IF i \in fired THEN FALSE
                          ELSE IF ~SlotMatches(t, i) THEN TRUE
                          ELSE offSinceFire[i]]
    /\ UNCHANGED << pc, scheduleHours, scheduleMinutes, scheduleCount,
                    remote, spiffs, wifiMode, bootTime, syncSource, bootVars >>

Next ==
    \/ SetupBegin
    \/ ConnectWiFi
    \/ ConnectPoll
    \/ FetchScheduleFromAPI
    \/ LoadScheduleFromSPIFFS
    \/ Loop

Spec == Init /\ [][Next]_vars

\* ------------------------------------------------------------------------
\* The boot synchronisation alone, over a wider set of documents
\* ------------------------------------------------------------------------
InitSync ==
    /\ pc = "setup"
    /\ remote \in SyncRemoteDocs
    /\ spiffs \in SyncCacheFiles
    /\ bootTime \in BootTimes
    /\ codecInput = << >>
    /\ PowerOn

NextSync ==
    \/ SetupBegin
    \/ ConnectWiFi
    \/ ConnectPoll
    \/ FetchScheduleFromAPI
    \/ LoadScheduleFromSPIFFS

SpecSync == InitSync /\ [][NextSync]_vars

\* ------------------------------------------------------------------------
\* The cache codec alone: saveScheduleToSPIFFS() on a schedule held in RAM,
\* a restart, then loadScheduleFromSPIFFS()
\* ------------------------------------------------------------------------
CodecHours == { 0, 9, 10, 23 }
CodecMinutes == { 0, 5, 59 }
CodecPairs == CodecHours \X CodecMinutes

\* Schedules of 0..MAX_SLOTS slots that alternate between two pairs.
CodecSchedules ==
    { [k \in 1 .. n |-> IF k % 2 = 1 THEN p ELSE q] :
        n \in 0 .. MAX_SLOTS, p \in CodecPairs, q \in CodecPairs }

InitCodec ==
    /\ pc = "save"
    /\ codecInput \in CodecSchedules
    /\ scheduleHours =
          [i \in Slots |-> IF i < Len(codecInput) THEN codecInput[i + 1][1] ELSE 0]
    /\ scheduleMinutes =
          [i \in Slots |-> IF i < Len(codecInput) THEN codecInput[i + 1][2] ELSE 0]
    /\ scheduleCount = Len(codecInput)
    /\ alreadyExecuted = [i \in Slots |-> FALSE]
    /\ remote = Garbage
    /\ spiffs \in { NoFile, JsonDoc(<< StrV(T0731), StrV(T1205) >>) }
    /\ bootTime = 0
    /\ ControlsAtReset

\* saveScheduleToSPIFFS() on the schedule in RAM
CodecSave ==
    /\ pc = "save"
    /\ \E saved \in { "ok", "openfail", "writefail" } :
          /\ spiffs' = SavedFile(saved, spiffs, scheduleHours, scheduleMinutes,
                                 scheduleCount)
          /\ saveResult' = IF saved = "ok" THEN "ok" ELSE "failed"
    /\ pc' = "saved"
    /\ UNCHANGED << progVars, remote, wifiMode, ms, bootTime, syncSource, iterVars,
                    obsVars, waited, loadOpenFailed, codecInput >>

\* A restart: the globals are initialised again, the file system is kept, and
\* the next boot gets as far as the cache load.
CodecRestart ==
    /\ pc = "saved"
    /\ pc' = "load"
    /\ scheduleHours' = [i \in Slots |-> 0]
    /\ scheduleMinutes' = [i \in Slots |-> 0]
    /\ scheduleCount' = 0
    /\ alreadyExecuted' = [i \in Slots |-> FALSE]
    /\ UNCHANGED << refillMode, buttonPressStart, buttonHeld, envVars, iterVars,
                    obsVars, bootVars >>

NextCodec ==
    \/ CodecSave
    \/ CodecRestart
    \/ LoadScheduleFromSPIFFS

SpecCodec == InitCodec /\ [][NextCodec]_vars

\* setup() is straight-line code on one thread: whenever one of its steps
\* can run, it does.
SpecSyncFair == SpecSync /\ WF_vars(NextSync)

\* ------------------------------------------------------------------------
\* Properties
\* ------------------------------------------------------------------------
Live == { i \in Slots : i < scheduleCount }
Iterated == pc = "loop" /\ confState # "NONE"

\* Time from the first LOW sample of the press to the last sample.
PressAge == currentMillis - pressBegin

\* C1: during one continuous press (every sample LOW), Mode has been flipped
\* exactly once when the press has lasted at least 5000 ms, however much
\* longer it lasts, and not at all before.
C1_OneTogglePerPress ==
    (Iterated /\ confState = "LOW") =>
        pressToggles = (IF PressAge >= HOLD_MS THEN 1 ELSE 0)

\* C2: a release handled as a manual dispense never belongs to a press that
\* has already toggled the mode.
C2_ToggledPressNeverDispenses ==
    (Iterated /\ manualSteps > 0) => pressToggles = 0

\* The time strings the boot sync read from the source it used.
SourceStrings ==
    IF syncSource = "remote"
    THEN [k \in 1 .. Len(remote.times) |-> TimeMemberAsString(remote.times[k])]
    ELSE [k \in 1 .. Len(spiffs.times) |-> AsString(spiffs.times[k])]

ScheduleAsPairs ==
    [k \in 1 .. scheduleCount |-> << scheduleHours[k - 1], scheduleMinutes[k - 1] >>]

ValidPairs(strs) ==
    LET valid == SelectSeq(strs, ValidTime)
    IN  [k \in 1 .. StoredCount(Len(valid)) |->
            << ParseHour(valid[k]), ParseMinute(valid[k]) >>]

Mixed(strs) ==
    /\ \E k \in 1 .. Len(strs) : ValidTime(strs[k])
    /\ \E k \in 1 .. Len(strs) : ~ValidTime(strs[k])

\* C3: when the document the boot sync used mixes valid HH:MM entries with
\* malformed ones, the installed Schedule is exactly the valid entries, in
\* input order.
C3_MalformedEntriesDropped ==
    (pc = "loop" /\ syncSource # "none" /\ Mixed(SourceStrings)) =>
        ScheduleAsPairs = ValidPairs(SourceStrings)

\* C4: while Mode stays Normal, a slot dispenses on the first iteration of a
\* run of iterations whose clock matches it, and on no later iteration of
\* that run.
C4_OncePerMatchingRun ==
    \A i \in Live :
        (Iterated /\ runNormal[i]) =>
            /\ matchRun[i] = 1 => (i \in schedSteps /\ firedInRun[i] = 1)
            /\ matchRun[i] = 2 => (i \notin schedSteps /\ firedInRun[i] = 1)

C4_Witness ==
    \E i \in Live :
        Iterated /\ runNormal[i] /\ matchRun[i] = 2 /\ firedInRun[i] = 1

\* C5: at the end of every loop iteration, in every Mode, a slot's latch is
\* true only if the clock read in that iteration matches the slot.
C5_LatchOnlyWhileMatching ==
    \A i \in Live :
        (Iterated /\ alreadyExecuted[i]) => SlotMatches(now, i)

\* C6: a slot that has seen the clock move off its minute since it last
\* fired dispenses on the next iteration that reads a matching clock in
\* Normal mode: after such an iteration the slot is never still waiting.
C6_RearmedAfterLeavingMinute ==
    \A i \in Live :
        (Iterated /\ ~refillMode /\ SlotMatches(now, i)) => ~offSinceFire[i]

\* C7: every manual dispense happens on a released sample, in Refill mode,
\* with the time from the start of the continuous press to the release in
\* [1000, 5000) ms; an iteration in Normal mode never dispenses manually.
C7_ManualDispenseOnlyOnQualifyingRelease ==
    (Iterated /\ manualSteps > 0) =>
        /\ confState = "HIGH"
        /\ releasedNow
        /\ refillMode /\ modeAtStart
        /\ PressAge >= MANUAL_MIN_MS
        /\ PressAge < HOLD_MS

\* C8: in Refill mode a release after a press of [1000, 5000) ms dispenses
\* exactly once, a release after 999 ms or less, or after exactly 5000 ms,
\* does not dispense, and no iteration dispenses manually twice.
C8_QualifyingReleaseDispensesOnce ==
    /\ manualSteps <= 1
    /\ (Iterated /\ releasedNow /\ refillMode) =>
          /\ (PressAge >= MANUAL_MIN_MS /\ PressAge < HOLD_MS) => manualSteps = 1
          /\ (PressAge < MANUAL_MIN_MS \/ PressAge = HOLD_MS) => manualSteps = 0

C8_Witness ==
    /\ Iterated /\ releasedNow /\ refillMode
    /\ PressAge = MANUAL_MIN_MS
    /\ manualSteps = 1

\* C9: an iteration that ends in Refill mode has run no scheduled dispense,
\* the iteration that switches Normal to Refill included.
C9_NoScheduledDispenseInRefill ==
    (Iterated /\ refillMode) => schedSteps = {}

C9_Witness ==
    /\ Iterated /\ refillMode /\ ~modeAtStart
    /\ \E i \in Live : SlotMatches(now, i) /\ ~alreadyExecuted[i]

\* C10: Mode is Normal at boot and changes only in a loop iteration that
\* samples the control pressed with at least 5000 ms elapsed since the press
\* start; releases and dispenses leave it alone.
C10_ModeChangesOnlyOnHold ==
    /\ ~refillMode
    /\ [][ (refillMode' # refillMode) =>
              /\ pc = "loop"
              /\ confState' = "LOW"
              /\ manualSteps' = 0
              /\ currentMillis' - buttonPressStart' >= HOLD_MS
              /\ currentMillis' - pressBegin' >= HOLD_MS ]_vars

C10_Witness ==
    Iterated /\ refillMode /\ confState = "LOW" /\ PressAge = HOLD_MS

\* The pair a well-formed HH:MM string denotes, read digit by digit.
TimePair(s) ==
    << DigitVal(s[1]) * 10 + DigitVal(s[2]), DigitVal(s[4]) * 10 + DigitVal(s[5]) >>

\* The first MAX_SLOTS entries of a list of well-formed time strings, as pairs.
FirstSlots(strs) ==
    [k \in 1 .. (IF Len(strs) > MAX_SLOTS THEN MAX_SLOTS ELSE Len(strs)) |->
        TimePair(strs[k])]

AllValid(strs) == \A k \in 1 .. Len(strs) : ValidTime(strs[k])

CacheStrings == [k \in 1 .. Len(spiffs.times) |-> AsString(spiffs.times[k])]
RemoteStrings == [k \in 1 .. Len(remote.times) |-> TimeMemberAsString(remote.times[k])]

\* The cache holds a decodable document of well-formed HH:MM strings.
ValidCache == spiffs.kind = "json" /\ AllValid(CacheStrings)
\* The remote serves a decodable document of well-formed "time" members.
ValidRemote == remote.kind = "json" /\ AllValid(RemoteStrings)

\* C11: when the boot sync did not get the schedule from the remote and a
\* valid cache file exists and opens, the Schedule after boot is the cache
\* content (its first MAX_SLOTS entries, in order) and every latch is false.
C11_CacheFallback ==
    (pc = "loop" /\ syncSource # "remote" /\ ValidCache /\ ~loadOpenFailed) =>
        /\ syncSource = "cache"
        /\ ScheduleAsPairs = FirstSlots(CacheStrings)
        /\ \A i \in Slots : ~alreadyExecuted[i]

C11_Witness ==
    /\ pc = "loop" /\ syncSource = "cache" /\ wifiMode = "STA"
    /\ ValidCache
    /\ Len(spiffs.times) > MAX_SLOTS
    /\ scheduleCount = MAX_SLOTS

\* The cache file decodes to exactly the Schedule held in memory.
CacheDecodesToSchedule ==
    /\ spiffs.kind = "json"
    /\ AllValid(CacheStrings)
    /\ Len(CacheStrings) = scheduleCount
    /\ FirstSlots(CacheStrings) = ScheduleAsPairs

BothSourcesFailed ==
    /\ pc = "loop"
    /\ syncSource # "remote"
    /\ (spiffs.kind # "json" \/ loadOpenFailed)

\* C13: when both the remote fetch and the cache load fail, the Schedule is
\* empty, no loop iteration of that boot runs a scheduled dispense, and the
\* control still works: the first sample at the hold threshold toggles Mode
\* and a qualifying release in Refill mode dispenses once.
C13_NoScheduleStillOperates ==
    BothSourcesFailed =>
        /\ syncSource = "none"
        /\ scheduleCount = 0
        /\ schedSteps = {}
        /\ (Iterated /\ confState = "LOW" /\ PressAge = HOLD_MS) =>
              refillMode # modeAtStart
        /\ (Iterated /\ releasedNow /\ refillMode
              /\ PressAge >= MANUAL_MIN_MS /\ PressAge < HOLD_MS) => manualSteps = 1

C13_Witness ==
    /\ BothSourcesFailed /\ Iterated
    /\ spiffs.kind = "garbage"
    /\ releasedNow /\ refillMode /\ manualSteps = 1
    /\ ms >= MinuteMs

\* C14: the slot count is always within 0..MAX_SLOTS; a remote or cached
\* document of more than MAX_SLOTS entries installs exactly MAX_SLOTS slots,
\* the first MAX_SLOTS in input order, and the parsing loop writes no array
\* index outside 0..MAX_SLOTS-1.
C14_CapacityBound ==
    /\ scheduleCount \in 0 .. MAX_SLOTS
    /\ (pc = "loop" /\ syncSource # "none") =>
          /\ WrittenIndices(Len(SourceStrings)) \subseteq Slots
          /\ Len(SourceStrings) > MAX_SLOTS =>
                /\ scheduleCount = MAX_SLOTS
                /\ ScheduleAsPairs = FirstSlots(SourceStrings)

C14_Witness ==
    /\ pc = "loop" /\ syncSource = "remote"
    /\ Len(RemoteStrings) = MAX_SLOTS + 1
    /\ ScheduleAsPairs = [k \in 1 .. MAX_SLOTS |-> TimePair(SevenTimes[k])]

\* C15: every slot of the installed Schedule has its hour in 0..23 and its
\* minute in 0..59, whatever document it was read from.
C15_SlotsInRange ==
    pc = "loop" =>
        \A i \in Live : scheduleHours[i] \in 0 .. 23 /\ scheduleMinutes[i] \in 0 .. 59

\* C16: for every Schedule of at most MAX_SLOTS slots with hours in 0..23
\* and minutes in 0..59, writing the cache file and reading it back after a
\* restart yields the same (hour, minute) sequence: same values, same order,
\* same count.
C16_CodecRoundTrip ==
    (pc = "loop" /\ saveResult = "ok" /\ syncSource = "cache") =>
        ScheduleAsPairs = codecInput

C16_Witness ==
    /\ pc = "loop" /\ saveResult = "ok" /\ syncSource = "cache"
    /\ Len(codecInput) = MAX_SLOTS
    /\ codecInput[1] = << 9, 5 >>
    /\ codecInput[2] = << 23, 59 >>
    /\ ScheduleAsPairs = codecInput

ScheduleInRam == << scheduleHours, scheduleMinutes, scheduleCount, alreadyExecuted >>

\* C17: the cache file changes only in a fetch step that decoded the remote
\* document and installed it; the connection steps and every fetch step that
\* fails leave both the cache file and the Schedule in RAM as they were, so
\* the cache fallback starts from an untouched Schedule.
C17_CacheWrittenOnlyOnSuccess ==
    [][ /\ (spiffs' # spiffs) =>
              (pc = "fetch" /\ remote.kind = "json" /\ syncSource' = "remote")
        /\ (pc = "fetch" /\ syncSource' # "remote") =>
              (pc' = "load" /\ UNCHANGED << spiffs, ScheduleInRam >>)
        /\ (pc \in { "setup", "connect", "connecting" }) =>
              UNCHANGED << spiffs, ScheduleInRam >>
        /\ (pc = "load") => UNCHANGED spiffs ]_vars

C17_Witness ==
    /\ pc = "load" /\ wifiMode = "STA"
    /\ ValidRemote /\ Len(remote.times) > 0
    /\ ValidCache
    /\ scheduleCount = 0
    /\ saveResult = "notrun"

\* C18: once the RTC has initialised, the connection wait never lasts longer
\* than WIFI_TIMEOUT and setup() always gets to the control loop, whatever
\* the connection attempt, the fetch and the cache load turn out to be.
C18_BootReachesLoop ==
    /\ [](waited <= WIFI_TIMEOUT)
    /\ (pc = "connect") ~> (pc = "loop")

C18_Witness ==
    /\ pc = "loop" /\ wifiMode = "AP"
    /\ syncSource = "none"
    /\ spiffs.kind = "garbage"
    /\ loadOpenFailed

\* C19: during one run of loop iterations that read a clock matching a slot,
\* the slot dispenses at most once, whatever mode toggles happen during the
\* run: an iteration that is back in Normal mode while the clock still
\* matches a slot that already fired does not dispense it again.
C19_AtMostOncePerMinute ==
    \A i \in Live : Iterated => firedInRun[i] <= 1

\* The iteration that toggles back to Normal, and so runs the schedule
\* block, in a minute in which the slot fired before Mode went to Refill.
C19_Witness ==
    \E i \in Live :
        /\ Iterated /\ modeAtStart /\ ~refillMode
        /\ SlotMatches(now, i) /\ matchRun[i] = 2
        /\ firedInRun[i] = 1 /\ i \notin schedSteps
        /\ alreadyExecuted[i]

====
